---- MODULE Spec2Model ----
(***************************************************************************)
(* Model of stripe_service (src/app.py): the /shop/checkout handler that   *)
(* issues a correlation token and stores it in stripe_states, and the      *)
(* /shop/webhook handler that verifies a Stripe event and reconciles it    *)
(* with the patrons table.                                                 *)
(***************************************************************************)
EXTENDS Integers, Sequences, FiniteSets, TLC

\* ---------------------------------------------------------------- bounds
\* Largest value of the database clock now().
MaxClock == 1
\* Largest count kept of deliveries of one event in a row.
MaxRepeat == 2
\* Largest count kept of the failed attempts to deliver one event.
MaxFailures == 2

\* ---------------------------------------------------------------- values
\* Python's None.
None == "None"

\* The token of the stripe_states row written under an earlier price catalog.
LegacyToken == "t0"

\* The values secrets.token_urlsafe(16) can return.
Tokens == {LegacyToken, "t1", "t2"}

Users == {"u1", "u2"}

Guilds == {"g1"}

Customers == {"c1", "c2"}

\* config.stripe_prices: tier name -> Stripe price id.
stripe_prices == [basic |-> "price_basic", premium |-> "price_premium"]

\* A price id that was in an earlier catalog and is in none now.
LegacyPrice == "price_legacy"

Tiers == DOMAIN stripe_prices

Prices == {stripe_prices[t] : t \in Tiers}

\* Mutant of rev_prices: a price the catalog lacks falls back to a tier.
rev_pricesDefault(price) ==
    IF \E t \in Tiers : stripe_prices[t] = price
    THEN CHOOSE t \in Tiers : stripe_prices[t] = price
    ELSE "basic"

\* rev_prices = {v: k for k, v in config.stripe_prices.items()}, with
\* dict.get's None for a missing key.
rev_prices(price) ==
    IF \E t \in Tiers : stripe_prices[t] = price
    THEN CHOOSE t \in Tiers : stripe_prices[t] = price
    ELSE None

\* ---------------------------------------------------------------- state
VARIABLES
    stripe_states,  \* table stripe_states: rows (user_id, guild_id, state, stripe_price)
    patrons,        \* table patrons: rows (user_id, guild_id, customer_id, tier, subscribed_at)
    sessions,       \* client_reference_id of every checkout session Stripe has created
    clock,          \* the database's now()
    last,           \* the last request handled and the response it got
    repeat,         \* the paid checkout.session.completed event the last request
                    \* delivered with 'Success', and how many times in a row
    processed,      \* the paid checkout.session.completed events handled with
                    \* 'Success' so far (kept by SpecRecorded only)
    outbox,         \* the event Stripe is delivering until an answer other
                    \* than 500 (kept by SpecRetry only)
    episode,        \* the event Stripe delivers several times at once, and
                    \* the patrons table when it began (SpecConcurrent only)
    running         \* where each handler of those deliveries stands in its
                    \* transaction (SpecConcurrent only)

vars == <<stripe_states, patrons, sessions, clock, last, repeat, processed,
          outbox, episode, running>>

StateRow(u, g, s, p) == [user_id |-> u, guild_id |-> g, state |-> s, stripe_price |-> p]

PatronRow(u, g, c, t, at) ==
    [user_id |-> u, guild_id |-> g, customer_id |-> c, tier |-> t, subscribed_at |-> at]

\* A handled request: which handler, the event type it carried, the response's
\* status and body, and whether the handler got as far as using the pool.
Resp(op, type, status, body, pool) ==
    [op |-> op, type |-> type, status |-> status, body |-> body, pool |-> pool]

NoRepeat == [ref |-> None, customer |-> None, times |-> 0]

\* No event.
NoEvent ==
    [type |-> None, payment_status |-> None, client_reference_id |-> None,
     customer |-> None, items |-> <<>>]

\* No row.
NoRow == StateRow(None, None, None, None)

\* Stripe holds no event to deliver.
NoOutbox == [event |-> NoEvent, failures |-> 0, pending |-> FALSE]

\* No event is being delivered several times at once.
NoEpisode == [event |-> NoEvent, before |-> {}]

\* The requests handled at the same time.
Handlers == {"h1", "h2"}

\* A handler that has not got its request yet.
Idle == [pc |-> "idle", state |-> NoRow, keys |-> {}, del |-> {}, add |-> {},
         body |-> None]

\* The tables as the service finds them: one correlation left by a checkout
\* made under an earlier catalog, no patron yet.
Init ==
    /\ stripe_states = {StateRow("u2", "g1", LegacyToken, LegacyPrice)}
    /\ patrons = {}
    /\ sessions = {LegacyToken}
    /\ clock = 0
    /\ last = Resp("start", None, 0, None, FALSE)
    /\ repeat = NoRepeat
    /\ processed = {}
    /\ outbox = NoOutbox
    /\ episode = NoEpisode
    /\ running = [h \in Handlers |-> Idle]

\* ---------------------------------------------------------------- checkout
\* The JSON bodies of POST /checkout; body.get gives None for a missing key.
CheckoutRequests ==
    [user_id : Users \cup {None}, guild_id : Guilds \cup {None},
     price : Prices \cup {LegacyPrice, None}]

\* None in (user_id, guild_id, price)
MissingParameter(body) == None \in {body.user_id, body.guild_id, body.price}

\* Mutant of InvalidPrice: the price is not looked up.
InvalidPriceIgnored(body) == FALSE

\* price not in config.stripe_prices.values()
InvalidPrice(body) == body.price \notin Prices

\* What happens in the try block: nothing goes wrong, Session.create raises,
\* or the INSERT raises a database error.
CheckoutFaults == {"none", "stripe", "store"}

\* A request with what its environment does to it: the body, the value
\* secrets.token_urlsafe(16) returns and the fault.  A request the validation
\* turns down draws no token and reaches neither Stripe nor the pool.
CheckoutInputs ==
    {<<b, t, f>> : b \in {x \in CheckoutRequests :
                              ~MissingParameter(x) /\ ~InvalidPrice(x)},
                   t \in Tokens, f \in CheckoutFaults}
    \cup {<<b, None, "none">> : b \in {x \in CheckoutRequests :
                              MissingParameter(x) \/ InvalidPrice(x)}}

\* Mutant of InsertState: user_id and guild_id passed in the wrong order.
InsertStateSwapped(table, u, g, s, p) == table \cup {StateRow(g, u, s, p)}

\* INSERT INTO stripe_states (user_id, guild_id, state, stripe_price)
InsertState(table, u, g, s, p) == table \cup {StateRow(u, g, s, p)}

\* The primary key of stripe_states: an INSERT of a token already there fails.
StatesTokenTaken(table, s) == \E r \in table : r.state = s

CheckoutResp(status, body, pool) == Resp("checkout", None, status, body, pool)

\* return Response({'error': ...}, status_code=400) before the try block.
CheckoutError(body) ==
    /\ last' = CheckoutResp(400, body, FALSE)
    /\ UNCHANGED <<stripe_states, sessions>>

\* Mutant of CreateSession: the INSERT made before the call to Stripe.
CreateSessionInsertFirst(body, token, fault) ==
    IF fault = "store" \/ StatesTokenTaken(stripe_states, token)
    THEN /\ last' = CheckoutResp(400, "store error", TRUE)
         /\ UNCHANGED <<stripe_states, sessions>>
    ELSE /\ stripe_states' =
                InsertState(stripe_states, body.user_id, body.guild_id,
                            token, body.price)
         /\ IF fault = "stripe"
            THEN /\ last' = CheckoutResp(400, "stripe error", TRUE)
                 /\ UNCHANGED sessions
            ELSE /\ sessions' = sessions \cup {token}
                 /\ last' = CheckoutResp(201, "url", TRUE)

\* The try block: stripe.checkout.Session.create, then the INSERT.  Either
\* may raise; the except clause answers 400 with the exception's text.  The
\* Response of the success path names no status_code: it gets the framework's
\* default for a POST handler, 201.
CreateSession(body, token, fault) ==
    IF fault = "stripe"
    THEN /\ last' = CheckoutResp(400, "stripe error", FALSE)
         /\ UNCHANGED <<stripe_states, sessions>>
    ELSE /\ sessions' = sessions \cup {token}
         /\ IF fault = "store" \/ StatesTokenTaken(stripe_states, token)
            THEN /\ last' = CheckoutResp(400, "store error", TRUE)
                 /\ UNCHANGED stripe_states
            ELSE /\ stripe_states' =
                        InsertState(stripe_states, body.user_id, body.guild_id,
                                    token, body.price)
                 /\ last' = CheckoutResp(201, "url", TRUE)

\* POST /checkout
checkout(body, token, fault) ==
    /\ UNCHANGED <<patrons, clock, processed>>
    /\ repeat' = NoRepeat
    /\ IF MissingParameter(body) THEN CheckoutError("Missing user_id")
       ELSE IF InvalidPrice(body) THEN CheckoutError("Invalid price")
       ELSE CreateSession(body, token, fault)

Checkout ==
    /\ \E i \in CheckoutInputs : checkout(i[1], i[2], i[3])
    /\ UNCHANGED <<outbox, episode, running>>

\* ---------------------------------------------------------------- webhook
CheckoutCompleted == "checkout.session.completed"

SubscriptionUpdated == "customer.subscription.updated"

SubscriptionCreated == "customer.subscription.created"

SubscriptionDeleted == "customer.subscription.deleted"

\* An event type the handler has no case for.
OtherType == "invoice.paid"

\* sub['items']['data'], each item by its price id.
ItemLists ==
    {<<>>, <<"price_basic">>, <<LegacyPrice>>, <<"price_premium", "price_basic">>}

Event(type, ps, ref, customer, items) ==
    [type |-> type, payment_status |-> ps, client_reference_id |-> ref,
     customer |-> customer, items |-> items]

CheckoutEvents ==
    {Event(CheckoutCompleted, ps, ref, c, <<>>) :
        ps \in {"paid", "unpaid"}, ref \in Tokens \cup {None, ""}, c \in Customers}

UpdateEvents ==
    {Event(t, None, None, c, items) :
        t \in {SubscriptionUpdated, SubscriptionCreated}, c \in Customers,
        items \in ItemLists}

DeleteEvents == {Event(SubscriptionDeleted, None, None, c, <<>>) : c \in Customers}

OtherEvents == {Event(OtherType, None, None, "c1", <<>>)}

Events == CheckoutEvents \cup UpdateEvents \cup DeleteEvents \cup OtherEvents

\* What stripe.Webhook.construct_event does with the body and the signature
\* header: it returns the event or raises one of the two errors.
Verifications == {"event", "ValueError", "SignatureVerificationError"}

\* Where the database fails during the request, if anywhere: acquiring the
\* connection and opening the transaction, the SELECT, or the
\* INSERT/UPDATE/DELETE.
Faults == {"none", "acquire", "fetchrow", "execute"}

\* The event carries what takes its handler to the statement the fault is
\* at: every handler acquires the pool; fetchrow is for a paid completion
\* with a token; execute for that, for a subscription event with items and
\* for a deletion.
Reaches(e, f) ==
    LET completion == /\ e.type = CheckoutCompleted
                      /\ e.payment_status = "paid"
                      /\ e.client_reference_id \in Tokens
    IN  \/ f \in {"none", "acquire"}
        \/ f = "fetchrow" /\ completion
        \/ f = "execute" /\ \/ completion
                            \/ e.type \in {SubscriptionUpdated, SubscriptionCreated}
                               /\ e.items # <<>>
                            \/ e.type = SubscriptionDeleted

\* One event of each type: construct_event turns a delivery down before
\* anything of the event but its type is looked at.
OnePerType == {CHOOSE e \in Events : e.type = t : t \in {x.type : x \in Events}}

\* A delivery with what its environment does to it.  A delivery that
\* construct_event turns down meets no database; a fault at a statement the
\* handler does not reach is no fault.
Deliveries ==
    {d \in Events \X {"event"} \X Faults : Reaches(d[1], d[3])}
    \cup {<<e, v, "none">> : e \in OnePerType, v \in Verifications \ {"event"}}

\* Mutant of Rejected: the two exceptions are not caught as a rejection.
RejectedNever(verify) == FALSE

\* except ValueError / except stripe.SignatureVerificationError
Rejected(verify) == verify # "event"

\* Mutant of Unpaid: the payment status is not looked at.
UnpaidIgnored(sess) == FALSE

\* sess.get('payment_status') != 'paid'
Unpaid(sess) == sess.payment_status # "paid"

\* not ref
MissingRef(ref) == ref = None \/ ref = ""

\* Mutant of FetchState: the WHERE clause names the wrong column.
FetchStateByUser(table, ref) == {r \in table : r.user_id = ref}

\* SELECT user_id, guild_id, stripe_price FROM stripe_states WHERE state=$1
FetchState(table, ref) == {r \in table : r.state = ref}

\* Mutant of Upsert: a plain INSERT into a table without the unique key.
UpsertPlainInsert(table, u, g, c, t, now) == table \cup {PatronRow(u, g, c, t, now)}

\* Mutant of Upsert: user_id and guild_id bound in the wrong order.
UpsertSwapped(table, u, g, c, t, now) ==
    IF \E r \in table : r.user_id = g /\ r.guild_id = u
    THEN {IF r.user_id = g /\ r.guild_id = u
          THEN [r EXCEPT !.customer_id = c, !.tier = t] ELSE r : r \in table}
    ELSE table \cup {PatronRow(g, u, c, t, now)}

\* Mutant of Upsert: the conflict clause sets customer_id and leaves tier.
UpsertCustomerOnly(table, u, g, c, t, now) ==
    IF \E r \in table : r.user_id = u /\ r.guild_id = g
    THEN {IF r.user_id = u /\ r.guild_id = g
          THEN [r EXCEPT !.customer_id = c] ELSE r : r \in table}
    ELSE table \cup {PatronRow(u, g, c, t, now)}

\* Mutant of Upsert: the conflict clause also sets subscribed_at.
UpsertResetsTime(table, u, g, c, t, now) ==
    {r \in table : ~(r.user_id = u /\ r.guild_id = g)} \cup {PatronRow(u, g, c, t, now)}

\* Mutant of Upsert: ON CONFLICT DO NOTHING.
UpsertDoNothing(table, u, g, c, t, now) ==
    IF \E r \in table : r.user_id = u /\ r.guild_id = g
    THEN table
    ELSE table \cup {PatronRow(u, g, c, t, now)}

\* INSERT INTO patrons ... ON CONFLICT (user_id, guild_id)
\* DO UPDATE SET customer_id=EXCLUDED.customer_id, tier=EXCLUDED.tier
Upsert(table, u, g, c, t, now) ==
    IF \E r \in table : r.user_id = u /\ r.guild_id = g
    THEN {IF r.user_id = u /\ r.guild_id = g
          THEN [r EXCEPT !.customer_id = c, !.tier = t]
          ELSE r : r \in table}
    ELSE table \cup {PatronRow(u, g, c, t, now)}

\* Mutant of UpdateTier: a customer without a row gets one.
UpdateTierOrInsert(table, t, c) ==
    IF \E r \in table : r.customer_id = c
    THEN {IF r.customer_id = c THEN [r EXCEPT !.tier = t] ELSE r : r \in table}
    ELSE table \cup {PatronRow("u1", "g1", c, t, 0)}

\* Mutant of UpdateTier: the WHERE clause left out.
UpdateTierAll(table, t, c) == {[r EXCEPT !.tier = t] : r \in table}

\* UPDATE patrons SET tier=$1 WHERE customer_id=$2
UpdateTier(table, t, c) ==
    {IF r.customer_id = c THEN [r EXCEPT !.tier = t] ELSE r : r \in table}

\* Mutant of DeleteCustomer: the WHERE clause left out.
DeleteCustomerAll(table, c) == {}

\* DELETE FROM patrons WHERE customer_id=$1
DeleteCustomer(table, c) == {r \in table : r.customer_id # c}

\* price_id = sub['items']['data'][0]['price']['id']
FirstPrice(items) == items[1]

WebhookResp(e, status, body, pool) == Resp("webhook", e.type, status, body, pool)

\* The count of deliveries in a row after one more 'Success' of sess.
Repeated(sess) ==
    [ref |-> sess.client_reference_id, customer |-> sess.customer,
     times |-> IF repeat.ref = sess.client_reference_id
                  /\ repeat.customer = sess.customer
               THEN IF repeat.times < MaxRepeat THEN repeat.times + 1 ELSE MaxRepeat
               ELSE 1]

\* A return that has written nothing.
Reply(e, status, body, pool) ==
    /\ last' = WebhookResp(e, status, body, pool)
    /\ repeat' = NoRepeat
    /\ UNCHANGED patrons

\* return Response(body, status_code=200) inside the transaction.
Ack(e, body) == Reply(e, 200, body, TRUE)

\* A database error leaves the handler as an exception: the transaction is
\* rolled back and the framework answers 500.
StoreError(e) == Reply(e, 500, "Internal Server Error", TRUE)

\* case 'checkout.session.completed'
checkout_session_completed(sess, fault) ==
    IF Unpaid(sess) THEN Ack(sess, "Unpaid session")
    ELSE IF MissingRef(sess.client_reference_id) THEN Ack(sess, "Missing state")
    ELSE IF fault = "fetchrow" THEN StoreError(sess)
    ELSE IF FetchState(stripe_states, sess.client_reference_id) = {}
    THEN Ack(sess, "Orphan state")
    ELSE \E state \in FetchState(stripe_states, sess.client_reference_id) :
            LET tier == rev_prices(state.stripe_price) IN
            IF tier = None THEN Ack(sess, "Unknown price")
            ELSE IF fault = "execute" THEN StoreError(sess)
            ELSE /\ patrons' = Upsert(patrons, state.user_id, state.guild_id,
                                      sess.customer, tier, clock)
                 /\ last' = WebhookResp(sess, 200, "Success", TRUE)
                 /\ repeat' = Repeated(sess)

\* case 'customer.subscription.updated' | 'customer.subscription.created'
subscription_updated(sub, fault) ==
    IF sub.items = <<>> THEN Ack(sub, "No items")
    ELSE LET tier == rev_prices(FirstPrice(sub.items)) IN
         IF tier = None THEN Ack(sub, "Success")
         ELSE IF fault = "execute" THEN StoreError(sub)
         ELSE /\ patrons' = UpdateTier(patrons, tier, sub.customer)
              /\ last' = WebhookResp(sub, 200, "Success", TRUE)
              /\ repeat' = NoRepeat

\* case 'customer.subscription.deleted'
subscription_deleted(sub, fault) ==
    IF fault = "execute" THEN StoreError(sub)
    ELSE /\ patrons' = DeleteCustomer(patrons, sub.customer)
         /\ last' = WebhookResp(sub, 200, "Success", TRUE)
         /\ repeat' = NoRepeat

\* Mutant of Dispatch: an event type without a case raises.
DispatchStrict(event, fault) ==
    IF event.type = CheckoutCompleted
    THEN checkout_session_completed(event, fault)
    ELSE IF event.type \in {SubscriptionUpdated, SubscriptionCreated}
    THEN subscription_updated(event, fault)
    ELSE IF event.type = SubscriptionDeleted
    THEN subscription_deleted(event, fault)
    ELSE StoreError(event)

\* match event.type, and the return after it
Dispatch(event, fault) ==
    IF event.type = CheckoutCompleted THEN checkout_session_completed(event, fault)
    ELSE IF event.type \in {SubscriptionUpdated, SubscriptionCreated}
    THEN subscription_updated(event, fault)
    ELSE IF event.type = SubscriptionDeleted THEN subscription_deleted(event, fault)
    ELSE Ack(event, "Success")

\* Mutant of webhook: a completion that resolves its token deletes the
\* stripe_states row it used.
webhookConsumes(event, verify, fault) ==
    /\ UNCHANGED <<sessions, clock>>
    /\ IF Rejected(verify)
       THEN /\ Reply(event, 400,
                     IF verify = "ValueError" THEN "Invalid payload"
                     ELSE "Invalid signature", FALSE)
            /\ UNCHANGED stripe_states
       ELSE IF fault = "acquire"
       THEN StoreError(event) /\ UNCHANGED stripe_states
       ELSE /\ Dispatch(event, fault)
            /\ stripe_states' =
                  IF event.type = CheckoutCompleted /\ last'.body = "Success"
                  THEN stripe_states \ FetchState(stripe_states, event.client_reference_id)
                  ELSE stripe_states

\* POST /webhook.  event: what the body holds; verify: what construct_event
\* does; fault: where the database fails.
webhook(event, verify, fault) ==
    /\ UNCHANGED <<stripe_states, sessions, clock>>
    /\ IF Rejected(verify)
       THEN Reply(event, 400,
                  IF verify = "ValueError" THEN "Invalid payload"
                  ELSE "Invalid signature", FALSE)
       ELSE IF fault = "acquire" THEN StoreError(event)
       ELSE Dispatch(event, fault)

Webhook ==
    /\ \E d \in Deliveries : webhook(d[1], d[2], d[3])
    /\ UNCHANGED <<processed, outbox, episode, running>>

\* The same handler, the environment keeping the set of paid
\* checkout.session.completed events it has seen answered 'Success'.
Recorded(event) ==
    IF event.type = CheckoutCompleted /\ last'.body = "Success"
    THEN processed \cup {<<event.client_reference_id, event.customer>>}
    ELSE processed

\* Deliveries that verify, to a database that does not fail.
WebhookRecorded ==
    /\ \E e \in Events : webhook(e, "event", "none") /\ processed' = Recorded(e)
    /\ UNCHANGED <<outbox, episode, running>>

\* ---------------------------------------------------------------- time
Tick ==
    /\ clock < MaxClock
    /\ clock' = clock + 1
    /\ UNCHANGED <<stripe_states, patrons, sessions, last, repeat, processed,
                   outbox, episode, running>>

Next == Checkout \/ Webhook \/ Tick

Spec == Init /\ [][Next]_vars

NextRecorded == Checkout \/ WebhookRecorded \/ Tick

SpecRecorded == Init /\ [][NextRecorded]_vars

\* ---------------------------------------------------------------- redelivery
\* Stripe delivers an event again until the answer is not a 500.  One event
\* is under delivery at a time.

\* The checkout.session.completed events Stripe has for the sessions it made.
SessionEvents == {e \in CheckoutEvents : e.client_reference_id \in Tokens}

\* Stripe has a new event to deliver.
Emit ==
    /\ ~outbox.pending
    /\ \E e \in SessionEvents \cup DeleteEvents :
          outbox' = [event |-> e, failures |-> 0, pending |-> TRUE]
    /\ UNCHANGED <<stripe_states, patrons, sessions, clock, last, repeat,
                   processed, episode, running>>

\* What Stripe does with the answer: a 500 keeps the event for another attempt.
Answered ==
    IF last'.status = 500
    THEN [outbox EXCEPT !.failures =
             IF outbox.failures < MaxFailures THEN outbox.failures + 1
             ELSE MaxFailures]
    ELSE [outbox EXCEPT !.pending = FALSE]

\* One attempt to deliver the event, the database failing at fault.
Attempt(fault) ==
    /\ outbox.pending
    /\ webhook(outbox.event, "event", fault)
    /\ outbox' = Answered
    /\ UNCHANGED <<processed, episode, running>>

\* An attempt during which the database does not fail.
AttemptOk == Attempt("none")

\* An attempt during which the database fails somewhere.
AttemptFaulty == \E f \in Faults \ {"none"} : Attempt(f)

NextRetry == Checkout \/ Emit \/ AttemptOk \/ AttemptFaulty

\* Stripe keeps redelivering and the database's failures stop at some point:
\* an attempt the database does not fail is made in the end.
SpecRetry == Init /\ [][NextRetry]_vars /\ WF_vars(AttemptOk)

\* ---------------------------------------------------------------- concurrency
\* Stripe delivers one event twice at once; each delivery has its handler,
\* and the statements of the two transactions interleave.  A statement reads
\* the committed tables; the rows it writes stay locked, and unseen by the
\* other transaction, until its transaction commits or rolls back.

\* The (user_id, guild_id) pairs of a patrons table.
Keys(table) == {<<r.user_id, r.guild_id>> : r \in table}

ConcurrentEvents ==
    SessionEvents \cup DeleteEvents
    \cup {e \in UpdateEvents : e.type = SubscriptionUpdated}

\* The requests other than the deliveries arrive while no event is being
\* delivered twice at once.
CheckoutQuiet == episode = NoEpisode /\ Checkout

\* Stripe sends an event twice at once.
Start ==
    /\ episode = NoEpisode
    /\ \E e \in ConcurrentEvents : episode' = [event |-> e, before |-> patrons]
    /\ UNCHANGED <<stripe_states, patrons, sessions, clock, last, repeat,
                   processed, outbox, running>>

\* The handler has returned body.
Done(body) == [Idle EXCEPT !.pc = "done", !.body = body]

\* checkout.session.completed up to its fetchrow and the price lookup.
Select(h) ==
    LET e == episode.event
        ref == e.client_reference_id
    IN  /\ e.type = CheckoutCompleted
        /\ running[h].pc = "idle"
        /\ running' = [running EXCEPT ![h] =
              IF Unpaid(e) THEN Done("Unpaid session")
              ELSE IF MissingRef(ref) THEN Done("Missing state")
              ELSE IF FetchState(stripe_states, ref) = {} THEN Done("Orphan state")
              ELSE LET state == CHOOSE r \in FetchState(stripe_states, ref) : TRUE
                   IN  IF rev_prices(state.stripe_price) = None
                       THEN Done("Unknown price")
                       ELSE [Idle EXCEPT !.pc = "selected", !.state = state]]
        /\ UNCHANGED <<stripe_states, patrons, sessions, clock, last, repeat,
                       processed, outbox, episode>>

\* The table the handler's statement makes of the committed table.
Written(h) ==
    LET e == episode.event
        st == running[h].state
    IN  IF e.type = CheckoutCompleted
        THEN Upsert(patrons, st.user_id, st.guild_id, e.customer,
                    rev_prices(st.stripe_price), clock)
        ELSE IF e.type \in {SubscriptionUpdated, SubscriptionCreated}
        THEN UpdateTier(patrons, rev_prices(FirstPrice(e.items)), e.customer)
        ELSE DeleteCustomer(patrons, e.customer)

\* The keys of the rows the statement writes, and locks.
Touched(h) ==
    IF episode.event.type = CheckoutCompleted
    THEN {<<running[h].state.user_id, running[h].state.guild_id>>}
    ELSE Keys({r \in patrons : r.customer_id = episode.event.customer})

\* The keys the transactions still open hold locked.
Locked == UNION {running[h].keys : h \in Handlers}

\* The conn.execute of the handler: the statement waits while a row it
\* writes is locked.
Statement(h) ==
    LET e == episode.event
        update == e.type \in {SubscriptionUpdated, SubscriptionCreated}
    IN  /\ e # NoEvent
        /\ running[h].pc = IF e.type = CheckoutCompleted THEN "selected" ELSE "idle"
        /\ IF update /\ e.items = <<>>
           THEN running' = [running EXCEPT ![h] = Done("No items")]
           ELSE IF update /\ rev_prices(FirstPrice(e.items)) = None
           THEN running' = [running EXCEPT ![h] = Done("Success")]
           ELSE /\ Touched(h) \cap Locked = {}
                /\ running' = [running EXCEPT ![h] =
                      [running[h] EXCEPT !.pc = "written",
                                         !.keys = Touched(h),
                                         !.del = patrons \ Written(h),
                                         !.add = Written(h) \ patrons]]
        /\ UNCHANGED <<stripe_states, patrons, sessions, clock, last, repeat,
                       processed, outbox, episode>>

\* The transaction commits as its block is left, and the handler returns.
Commit(h) ==
    /\ running[h].pc = "written"
    /\ patrons' = (patrons \ running[h].del) \cup running[h].add
    /\ running' = [running EXCEPT ![h] = Done("Success")]
    /\ UNCHANGED <<stripe_states, sessions, clock, last, repeat, processed,
                   outbox, episode>>

\* The database fails the handler (no connection, a failed statement, a
\* failed commit): the exception leaves the transaction block, which rolls
\* back, and the answer is a 500.
Abort(h) ==
    /\ episode # NoEpisode
    /\ running[h].pc \in {"idle", "selected", "written"}
    /\ running' = [running EXCEPT ![h] = Done("Internal Server Error")]
    /\ UNCHANGED <<stripe_states, patrons, sessions, clock, last, repeat,
                   processed, outbox, episode>>

\* Both deliveries have been answered.
End ==
    /\ \A h \in Handlers : running[h].pc = "done"
    /\ episode' = NoEpisode
    /\ running' = [h \in Handlers |-> Idle]
    /\ UNCHANGED <<stripe_states, patrons, sessions, clock, last, repeat,
                   processed, outbox>>

NextConcurrent ==
    \/ CheckoutQuiet
    \/ Start
    \/ \E h \in Handlers : Select(h)
    \/ \E h \in Handlers : Statement(h)
    \/ \E h \in Handlers : Commit(h)
    \/ \E h \in Handlers : Abort(h)
    \/ End

SpecConcurrent == Init /\ [][NextConcurrent]_vars

\* ---------------------------------------------------------------- claims
\* Each claim about what one request does is stated of every reachable state
\* and every request of the claim's kind: no step of the handler from that
\* state ends otherwise than the claim says.

\* The paid checkout.session.completed events that carry a token.
PaidEvents ==
    {e \in CheckoutEvents : e.payment_status = "paid" /\ e.client_reference_id \in Tokens}

\* The rows of a patrons table for one (user_id, guild_id).
KeyRows(table, u, g) == {r \in table : r.user_id = u /\ r.guild_id = g}

\* The correlation rows a token has.
Correlations(ref) == {st \in stripe_states : st.state = ref}

\* The price is a price of the catalog.
InCatalog(price) == \E t \in Tiers : stripe_prices[t] = price

\* After the step, patrons holds exactly one row for the correlation st's
\* (user_id, guild_id), with customer c and the catalog's tier for st's price.
OnePatron(st, c) ==
    \E r \in patrons' :
       /\ KeyRows(patrons', st.user_id, st.guild_id) = {r}
       /\ r.customer_id = c
       /\ r.tier \in Tiers
       /\ stripe_prices[r.tier] = st.stripe_price
       /\ r.subscribed_at <= clock

C1_Post(e) ==
    /\ patrons' = patrons
    /\ \A st \in Correlations(e.client_reference_id) : OnePatron(st, e.customer)

\* C1: when the request just handled was a delivery of a paid
\* checkout.session.completed event answered 'Success', delivering the same
\* event again (same token, same customer), whatever time has passed, leaves
\* the patrons table exactly as it was, subscribed_at included, and that table
\* holds exactly one row for the correlation's (user_id, guild_id), with the
\* event's customer and the catalog's tier for the correlation's price.  By
\* induction the table after N deliveries in a row is the table after one.
C1_RedeliveryInARow ==
    \A e \in PaidEvents, f \in Faults :
       (repeat.ref = e.client_reference_id /\ repeat.customer = e.customer)
       => ~ENABLED (webhook(e, "event", f) /\ ~C1_Post(e))

\* An event has been delivered with 'Success' at least twice in a row, and
\* the row of its customer is older than the clock.
C1_Witness ==
    /\ repeat.times >= 2
    /\ \E r \in patrons : r.customer_id = repeat.customer /\ r.subscribed_at < clock

\* C2: redelivering a paid checkout.session.completed event that was already
\* handled with 'Success', at any later point, leaves the patrons table as it
\* was just before the redelivery.  (Stated of the events whose token no other
\* handled completion carried: Stripe completes a session for one customer.)
C2_RedeliveryAnyTime ==
    \A e \in PaidEvents :
       (/\ <<e.client_reference_id, e.customer>> \in processed
        /\ \A p \in processed : p[1] = e.client_reference_id => p[2] = e.customer)
       => ~ENABLED (webhook(e, "event", "none") /\ patrons' # patrons)

\* The checkout requests that pass the validation.
ValidRequest(b) ==
    /\ b.user_id # None /\ b.guild_id # None /\ b.price # None
    /\ InCatalog(b.price)

\* C3 as stated: every valid checkout request adds exactly one row to
\* stripe_states.
C3_EveryValidRequestInserts ==
    \A i \in CheckoutInputs :
       ValidRequest(i[1])
       => ~ENABLED (/\ checkout(i[1], i[2], i[3])
                    /\ Cardinality(stripe_states') # Cardinality(stripe_states) + 1)

C3_Post(b, token, fault) ==
    IF /\ ValidRequest(b)
       /\ fault = "none"
       /\ \A r \in stripe_states : r.state # token
    THEN /\ stripe_states' = stripe_states \cup
                {[user_id |-> b.user_id, guild_id |-> b.guild_id,
                  state |-> token, stripe_price |-> b.price]}
         /\ Cardinality(stripe_states') = Cardinality(stripe_states) + 1
         /\ last'.status # 400
    ELSE /\ stripe_states' = stripe_states
         /\ last'.status = 400

\* C3 as amended: a valid checkout request whose Stripe call and INSERT both
\* succeed adds exactly one row to stripe_states, the row holding the
\* request's user_id, guild_id and price under a token no row had before;
\* every other checkout request leaves stripe_states unchanged and is answered
\* 400; and in every reachable state no two rows share a token.
C3_SuccessfulRequestInsertsOne ==
    /\ \A r1, r2 \in stripe_states : r1.state = r2.state => r1 = r2
    /\ \A i \in CheckoutInputs :
          ~ENABLED (checkout(i[1], i[2], i[3]) /\ ~C3_Post(i[1], i[2], i[3]))

\* A checkout has just stored a second correlation beside an earlier one of
\* the same user.
C3_Witness ==
    /\ last.op = "checkout" /\ last.status = 201
    /\ \E r1, r2 \in stripe_states :
          /\ r1.state # r2.state /\ r1.state # LegacyToken /\ r2.state # LegacyToken
          /\ r1.user_id = r2.user_id

\* C4: a checkout request whose Stripe call fails leaves stripe_states
\* unchanged, and in every reachable state the token of every stripe_states
\* row is the client_reference_id of a session Stripe has created.
C4_NoRowWithoutSession ==
    /\ \A r \in stripe_states : r.state \in sessions
    /\ \A i \in CheckoutInputs :
          i[3] = "stripe"
          => ~ENABLED (/\ checkout(i[1], i[2], i[3])
                       /\ ~(stripe_states' = stripe_states /\ sessions' = sessions))

\* A checkout has just failed at Stripe, after another had stored its row.
C4_Witness ==
    /\ last.op = "checkout" /\ last.body = "stripe error"
    /\ Cardinality(stripe_states) = 2
    /\ Cardinality(sessions) = 2

C5_Post(e) ==
    \A st \in Correlations(e.client_reference_id) :
       InCatalog(st.stripe_price)
       => (last'.status = 200 /\ OnePatron(st, e.customer))

\* C5: a paid checkout.session.completed event that carries the token of a
\* correlation with a catalog price, delivered with no database fault, leaves
\* exactly one patrons row for the correlation's (user_id, guild_id): its
\* customer_id is the event's customer and its tier the catalog's tier for the
\* correlation's price.
C5_CompletionYieldsPatron ==
    \A e \in PaidEvents : ~ENABLED (webhook(e, "event", "none") /\ ~C5_Post(e))

\* A completion has just been handled with 'Success': its correlation's
\* (user_id, guild_id) has a row with its customer, beside the row of another
\* user.
C5_Witness ==
    /\ last.type = CheckoutCompleted /\ last.body = "Success"
    /\ repeat.times = 1
    /\ Cardinality(patrons) = 2
    /\ \E r \in patrons, st \in stripe_states :
          /\ st.state = repeat.ref
          /\ r.user_id = st.user_id /\ r.guild_id = st.guild_id
          /\ r.customer_id = repeat.customer

C6_Post(verify, fault) ==
    /\ patrons' = patrons
    /\ (verify = "event" /\ fault \in {"none", "execute"}) => last'.status = 200

\* C6: a checkout.session.completed event whose correlation's price is in no
\* catalog entry leaves the patrons table unchanged, and when construct_event
\* accepts it and the database does not fail it is answered 200.
C6_UnknownPriceNoMutation ==
    \A d \in Deliveries :
       (/\ d[1] \in PaidEvents
        /\ \E st \in Correlations(d[1].client_reference_id) : ~InCatalog(st.stripe_price))
       => ~ENABLED (webhook(d[1], d[2], d[3]) /\ ~C6_Post(d[2], d[3]))

\* The unknown-price reply has just been given while the ledger holds a row.
C6_Witness ==
    /\ last.body = "Unknown price" /\ last.status = 200
    /\ patrons # {}

C7_Post(e, fault) ==
    /\ patrons' = patrons
    /\ stripe_states' = stripe_states
    /\ \/ last'.status = 200
       \/ fault = "acquire"
       \/ /\ fault = "fetchrow"
          /\ e.payment_status = "paid"
          /\ e.client_reference_id \notin {None, ""}

\* C7: a verified checkout.session.completed delivery that is unpaid, or has
\* no token or an empty one, or whose token has no stripe_states row, leaves
\* patrons and stripe_states unchanged, and is answered 200 unless the
\* database fails before the handler returns.
C7_SoftRejectAck ==
    \A e \in CheckoutEvents, f \in Faults :
       (\/ e.payment_status # "paid"
        \/ e.client_reference_id \in {None, ""}
        \/ Correlations(e.client_reference_id) = {})
       => ~ENABLED (webhook(e, "event", f) /\ ~C7_Post(e, f))

\* A soft reject has just been answered while both tables hold rows that a
\* delivery could have touched.
C7_Witness ==
    /\ last.body \in {"Unpaid session", "Missing state", "Orphan state"}
    /\ last.status = 200
    /\ patrons # {}
    /\ Cardinality(stripe_states) >= 2

C8_Post(e) ==
    \A t \in Tiers :
       stripe_prices[t] = e.items[1]
       => /\ last'.status = 200
          /\ patrons' =
                {r \in patrons : r.customer_id # e.customer}
                \cup {[r EXCEPT !.tier = t] :
                         r \in {x \in patrons : x.customer_id = e.customer}}
          /\ Cardinality(patrons') = Cardinality(patrons)

\* C8: a customer.subscription.updated or .created event whose first item's
\* price is in the catalog, delivered with no database fault, sets the tier of
\* every patrons row of the event's customer to the catalog's tier for that
\* price, changes nothing else of those rows, and leaves every other row as it
\* was; no row appears or disappears.
C8_UpdateOnlyMatching ==
    \A e \in UpdateEvents :
       e.items # <<>> => ~ENABLED (webhook(e, "event", "none") /\ ~C8_Post(e))

\* An update has just been handled while the ledger holds rows of two
\* customers, one of them with a tier no completion of its user gave it.
C8_Witness ==
    /\ last.type \in {SubscriptionUpdated, SubscriptionCreated}
    /\ last.body = "Success"
    /\ \E r1, r2 \in patrons :
          /\ r1.customer_id # r2.customer_id
          /\ \A st \in stripe_states :
                (st.user_id = r1.user_id /\ st.guild_id = r1.guild_id)
                => rev_prices(st.stripe_price) # r1.tier

C9_Post(e) ==
    /\ last'.status = 200
    /\ patrons' \subseteq patrons
    /\ \A r \in patrons : (r \in patrons') <=> (r.customer_id # e.customer)
    /\ (\A r \in patrons : r.customer_id # e.customer) => patrons' = patrons

\* C9: a customer.subscription.deleted event, delivered with no database
\* fault, removes every patrons row of the event's customer, leaves every
\* other row as it was and adds none, and is answered 200; when the customer
\* has no row the table is unchanged.
C9_DeleteOnlyMatching ==
    \A e \in DeleteEvents : ~ENABLED (webhook(e, "event", "none") /\ ~C9_Post(e))

\* A deletion has just been handled and the row of another customer is left.
C9_Witness ==
    /\ last.type = SubscriptionDeleted /\ last.body = "Success"
    /\ Cardinality(patrons) = 1
    /\ Cardinality(stripe_states) = 3

C10_Post ==
    /\ last'.status = 400
    /\ ~last'.pool
    /\ patrons' = patrons
    /\ stripe_states' = stripe_states

\* C10: a delivery that construct_event turns down (bad signature or
\* malformed body) is answered 400 without the handler reaching the pool, and
\* leaves patrons and stripe_states unchanged.
C10_UnverifiedNoEffect ==
    \A e \in Events, v \in {"ValueError", "SignatureVerificationError"} :
       ~ENABLED (webhook(e, v, "none") /\ ~C10_Post)

\* A delivery has just been turned down while the ledger holds a row.
C10_Witness ==
    /\ last.op = "webhook" /\ last.status = 400
    /\ patrons # {}

\* C11: a request that meets a database failure is answered 500, and no
\* other request is: a checkout request whose INSERT fails, a delivery to
\* which the pool gives no connection, are answered 500; a request the
\* database does not fail is answered something else.
C11_StoreFailureIs500 ==
    /\ \A i \in CheckoutInputs :
          ValidRequest(i[1])
          => ~ENABLED (/\ checkout(i[1], i[2], i[3])
                       /\ (last'.status = 500) #
                             (i[3] = "store" \/ (i[3] = "none" /\ StatesTokenTaken(stripe_states, i[2]))))
    /\ \A e \in Events :
          /\ ~ENABLED (webhook(e, "event", "acquire") /\ last'.status # 500)
          /\ \A v \in Verifications :
                ~ENABLED (webhook(e, v, "none") /\ last'.status = 500)

\* C12: in every reachable state the patrons table holds at most one row for
\* each (user_id, guild_id).
C12_OnePatronPerKey ==
    \A r1 \in patrons, r2 \in patrons :
       (r1.user_id = r2.user_id /\ r1.guild_id = r2.guild_id) => r1 = r2

\* A completion has just been handled for a key whose row an earlier
\* completion wrote: the row is older than the clock, and two correlations
\* with different prices exist for its key.
C12_Witness ==
    /\ last.type = CheckoutCompleted /\ last.body = "Success"
    /\ \E r \in patrons :
          /\ r.customer_id = repeat.customer
          /\ r.subscribed_at < clock
          /\ \E s1 \in stripe_states, s2 \in stripe_states :
                /\ s1.user_id = r.user_id /\ s2.user_id = r.user_id
                /\ s1.guild_id = r.guild_id /\ s2.guild_id = r.guild_id
                /\ s1.state = repeat.ref
                /\ s1.stripe_price # s2.stripe_price

C13_Post(e) ==
    /\ Keys(patrons') = Keys(patrons)
    /\ (\A r \in patrons : r.customer_id # e.customer) => patrons' = patrons

\* C13: a customer.subscription.updated or .created delivery, whatever it
\* carries and wherever the database fails, leaves the set of (user_id,
\* guild_id) of the patrons table as it was, and leaves the whole table as it
\* was when no row has the event's customer; and right after such a delivery
\* a paid checkout.session.completed whose token has a correlation with a
\* catalog price still leaves exactly one row for the correlation's key.
C13_UpdateCreatesNoRow ==
    /\ \A e \in UpdateEvents, f \in Faults :
          ~ENABLED (webhook(e, "event", f) /\ ~C13_Post(e))
    /\ (last.type \in {SubscriptionUpdated, SubscriptionCreated} /\ last.status = 200)
       => \A e \in PaidEvents :
             \A st \in Correlations(e.client_reference_id) :
                InCatalog(st.stripe_price)
                => ~ENABLED (/\ webhook(e, "event", "none")
                             /\ ~(OnePatron(st, e.customer) /\ last'.body = "Success"))

\* A subscription event has been acknowledged while the ledger was empty and
\* a checkout with a catalog price was waiting for its completion.
C13_Witness ==
    /\ last.type \in {SubscriptionUpdated, SubscriptionCreated}
    /\ last.body = "Success"
    /\ patrons = {}
    /\ \E st \in stripe_states : InCatalog(st.stripe_price) /\ st.state \in sessions

\* customer_id and tier of every row, per (user_id, guild_id).
Ledger(table) ==
    {<<r.user_id, r.guild_id, r.customer_id, r.tier>> : r \in table}

\* The correlations of a token whose price is a price of the catalog.
Resolvable(ref) == {st \in Correlations(ref) : InCatalog(st.stripe_price)}

\* The patrons table a paid completion e with a resolvable correlation leaves
\* when delivered to the table: the upsert of lines 116-122.
AfterCompletion(table, e) ==
    LET st == CHOOSE x \in Resolvable(e.client_reference_id) : TRUE
    IN  Upsert(table, st.user_id, st.guild_id, e.customer,
               rev_prices(st.stripe_price), clock)

\* Two completions, one after the other.
AfterBoth(e1, e2) == Ledger(AfterCompletion(AfterCompletion(patrons, e1), e2))

\* AfterCompletion is what the handler does: no delivery of a paid completion
\* with a resolvable correlation leaves another table.
HandlerIsAfterCompletion ==
    \A e \in PaidEvents :
       Resolvable(e.client_reference_id) # {}
       => ~ENABLED (/\ webhook(e, "event", "none")
                    /\ patrons' # AfterCompletion(patrons, e))

\* C15 as stated: any two paid completions with resolvable correlations leave
\* the same customer_id and tier in every row whichever is delivered first.
\* (Stated of completions of different sessions: Stripe completes a session
\* once, for one customer.)
C15_AnyTwoCommute ==
    \A e1 \in PaidEvents, e2 \in PaidEvents :
       (/\ Resolvable(e1.client_reference_id) # {}
        /\ Resolvable(e2.client_reference_id) # {}
        /\ e1.client_reference_id # e2.client_reference_id)
       => AfterBoth(e1, e2) = AfterBoth(e2, e1)

C16_Post ==
    /\ last'.status = 400
    /\ last'.body \in {"Missing user_id", "Invalid price"}
    /\ ~last'.pool
    /\ sessions' = sessions
    /\ stripe_states' = stripe_states

\* C16: a checkout request without user_id, guild_id or price, or with a
\* price that is no price of the catalog, is answered 400 with an error body,
\* creates no Stripe session, reaches no connection of the pool and leaves
\* stripe_states as it was.
C16_InvalidRequestRejected ==
    \A i \in CheckoutInputs :
       ~ValidRequest(i[1]) => ~ENABLED (checkout(i[1], i[2], i[3]) /\ ~C16_Post)

\* An invalid request has just been turned down while a session was waiting.
C16_Witness ==
    /\ last.op = "checkout" /\ last.status = 400 /\ ~last.pool
    /\ last.body \in {"Missing user_id", "Invalid price"}
    /\ Cardinality(stripe_states) >= 2

C17_Post ==
    /\ last'.status = 200
    /\ patrons' = patrons
    /\ stripe_states' = stripe_states

\* C17: a verified event whose type is none of the four the handler matches
\* is answered 200 and leaves patrons and stripe_states as they were, whenever
\* the pool gives the handler its connection (the handler runs no statement,
\* so no later database fault reaches it).
C17_OtherTypeAcknowledged ==
    \A e \in OtherEvents, f \in Faults \ {"acquire"} :
       ~ENABLED (webhook(e, "event", f) /\ ~C17_Post)

\* An event of another type has just been acknowledged while the ledger
\* held a row.
C17_Witness ==
    /\ last.type = OtherType /\ last.status = 200 /\ last.body = "Success"
    /\ patrons # {}

\* C19: no request removes or changes a stripe_states row: a webhook
\* delivery, whatever its event, its verification and the database's fault,
\* leaves stripe_states as it was, and a checkout request leaves every row
\* that was there; so the token of the completion last handled with 'Success'
\* still has its correlation with a catalog price.
C19_CorrelationsOnlyGrow ==
    /\ \A d \in Deliveries :
          ~ENABLED (webhook(d[1], d[2], d[3]) /\ stripe_states' # stripe_states)
    /\ \A i \in CheckoutInputs :
          ~ENABLED (checkout(i[1], i[2], i[3]) /\ ~(stripe_states \subseteq stripe_states'))
    /\ repeat.times >= 1 => Resolvable(repeat.ref) # {}

\* A completion has been handled with 'Success' twice in a row, its
\* correlation being one of three rows.
C19_Witness ==
    /\ last.type = CheckoutCompleted /\ last.body = "Success"
    /\ repeat.times >= 2
    /\ Resolvable(repeat.ref) # {}
    /\ Cardinality(stripe_states) = 3

\* C20: in every reachable state every patrons row has the (user_id,
\* guild_id) of a stripe_states row that has a catalog price and whose token
\* names a Stripe session a checkout request created, and its tier is a tier
\* of the catalog; so while no checkout has succeeded the table is empty,
\* whatever events have been delivered.
C20_PatronsTraceToCheckout ==
    \A r \in patrons :
       /\ r.tier \in Tiers
       /\ \E st \in stripe_states :
             /\ st.user_id = r.user_id /\ st.guild_id = r.guild_id
             /\ InCatalog(st.stripe_price)
             /\ st.state \in sessions

\* Two users have their rows, and subscription events have been handled
\* since: the last one changed or deleted by customer.
C20_Witness ==
    /\ Cardinality(patrons) = 2
    /\ last.type \in {SubscriptionUpdated, SubscriptionCreated, SubscriptionDeleted}
    /\ last.body = "Success"

\* The patrons table holds a row for the key of a resolvable correlation of
\* the event's token, with the event's customer.
HasPatron(e) ==
    \E st \in Resolvable(e.client_reference_id) :
       \E r \in patrons :
          /\ r.user_id = st.user_id /\ r.guild_id = st.guild_id
          /\ r.customer_id = e.customer

\* C18: when Stripe redelivers after every 500 and an attempt the database
\* does not fail is made in the end, a paid checkout.session.completed event
\* under delivery whose token has a correlation with a catalog price leads to
\* a patrons row for the correlation's (user_id, guild_id), however many
\* attempts failed before.
C18_RedeliveryLeadsToPatron ==
    \A e \in PaidEvents :
       (outbox.pending /\ outbox.event = e /\ Resolvable(e.client_reference_id) # {})
       ~> HasPatron(e)

\* A paid completion has been answered 200 after failed attempts, and its
\* row is there.
C18_Witness ==
    /\ ~outbox.pending
    /\ outbox.failures >= 1
    /\ outbox.event \in PaidEvents
    /\ last.body = "Success"
    /\ HasPatron(outbox.event)

\* The patrons table one delivery of the event, handled alone, makes of a
\* table.
Applied(table, e) ==
    IF e.type = CheckoutCompleted
    THEN IF ~Unpaid(e) /\ Resolvable(e.client_reference_id) # {}
         THEN AfterCompletion(table, e) ELSE table
    ELSE IF e.type \in {SubscriptionUpdated, SubscriptionCreated}
    THEN IF e.items # <<>> /\ rev_prices(FirstPrice(e.items)) # None
         THEN UpdateTier(table, rev_prices(FirstPrice(e.items)), e.customer)
         ELSE table
    ELSE IF e.type = SubscriptionDeleted
    THEN DeleteCustomer(table, e.customer)
    ELSE table

\* The row holds all the event writes: for a completion the event's customer
\* and the tier of its correlation's price, under the correlation's key; for
\* a subscription update the tier of the first item, in a row the customer
\* had.
FullyApplied(r, e) ==
    /\ r.tier \in Tiers
    /\ r.customer_id = e.customer
    /\ IF e.type = CheckoutCompleted
       THEN \E st \in Correlations(e.client_reference_id) :
               /\ r.user_id = st.user_id /\ r.guild_id = st.guild_id
               /\ stripe_prices[r.tier] = st.stripe_price
       ELSE /\ e.type = SubscriptionUpdated
            /\ e.items # <<>>
            /\ stripe_prices[r.tier] = FirstPrice(e.items)
            /\ \E r0 \in episode.before :
                  /\ r0.customer_id = e.customer
                  /\ r0.user_id = r.user_id /\ r0.guild_id = r.guild_id
                  /\ r0.subscribed_at = r.subscribed_at

\* C14: while two deliveries of one event are handled at once, whatever the
\* order of their statements, commits and failures, the committed patrons
\* table is the table the event found or the table one delivery handled alone
\* makes of it (which a second delivery handled alone leaves as it is); it is
\* the latter as soon as one delivery has committed its statement, the former
\* while none has; and every committed row is a row the event found or holds
\* all the event writes.  (What one delivery handled alone makes of a table
\* is what the handler's step makes of it, in every state between such
\* events.)
C14_SerialOutcome ==
    /\ episode = NoEpisode
       => \A e \in ConcurrentEvents :
             /\ ~ENABLED (webhook(e, "event", "none") /\ patrons' # Applied(patrons, e))
             /\ Applied(Applied(patrons, e), e) = Applied(patrons, e)
    /\ episode # NoEpisode
       => /\ patrons \in {episode.before, Applied(episode.before, episode.event)}
          /\ (\E h \in Handlers : running[h].body = "Success")
             => patrons = Applied(episode.before, episode.event)
          /\ (\A h \in Handlers : running[h].body # "Success")
             => patrons = episode.before
          /\ \A r \in patrons :
                r \in episode.before \/ FullyApplied(r, episode.event)

\* Both deliveries of a completion have committed, the second after the
\* first, and the row they wrote replaced the one its key had.
C14_Witness ==
    /\ episode.event.type = CheckoutCompleted
    /\ \A h \in Handlers : running[h].body = "Success"
    /\ patrons # episode.before
    /\ Keys(patrons) = Keys(episode.before)
====
